---- MODULE Spec2Model ----
(***************************************************************************)
(* Model of the rust_trading stream orchestrator: main /                   *)
(* load_or_fetch_historical (main.rs), fetch_latest_klines                 *)
(* (binance_client.rs), run (live_stream.rs), compute_features             *)
(* (features/mod.rs) and the persistence functions (data_storage.rs).      *)
(*                                                                         *)
(* A Kline is modelled by its open_time, close and close_time; open, high, *)
(* low and volume are carried by the orchestrator exactly like close and   *)
(* are not represented.                                                    *)
(***************************************************************************)
EXTENDS Integers, Sequences, FiniteSets, TLC

VARIABLES
    pc,           \* position of the main task
    result,       \* how the process ended ("running" while it has not)
    stream_type,  \* args[1]
    raw_window,   \* VecDeque<Kline> owned by run
    features_df,  \* the feature table of the last compute_features call
    ncompute,     \* number of compute_features calls made so far
    handles,      \* the tasks spawned for the current closed candle
    msg,          \* the stream item the loop read last
    sent,         \* the Pong the current iteration wrote to the socket
    fs,           \* the files on disk, by path
    unwritable,   \* the paths on which every create or open for write fails
    sort_ties,    \* how this build's unstable sort orders rows with equal keys
    ema_spans,    \* the spans of the two EMAs this build computes
    fetch,        \* the locals of a fetch_klines_range call in progress
    feature_window  \* the separate feature window of live_stream_20260223183456.rs

vars == <<pc, result, stream_type, raw_window, features_df, ncompute,
          handles, msg, sent, fs, unwritable, sort_ties, ema_spans, fetch,
          feature_window>>

----------------------------------------------------------------------------
(* Bounds of the model *)

\* capacity of the raw window (50_000 in the source)
HISTORICAL_COUNT == 2

\* size of the feature slice: the same number as HISTORICAL_COUNT in the
\* source (50000)
FEATURE_WINDOW_SIZE == HISTORICAL_COUNT

\* candle slots the exchange can serve or stream: the range
\* [now - count * interval_ms, now] of fetch_latest_klines holds count + 1
MaxSlot == HISTORICAL_COUNT + 1

\* closed candles consumed in one run
MaxCandles == 2

\* capacity of the separate feature window of live_stream_20260223183456.rs
\* (FEATURE_WINDOW_SIZE = 7000 there, below HISTORICAL_COUNT)
FEATURE_CAPACITY == 1

\* candles in one page of fetch_klines_range
limit == 2

\* candles of an argument of compute_features taken on its own
MaxRows == 3

\* calls of compute_features on one argument
MaxCalls == 2

----------------------------------------------------------------------------
(* Values *)

\* The orders an unstable sort may give to rows with equal keys: the order is
\* unspecified, but a build sorts with one fixed algorithm, so it is the same
\* every time the same rows are sorted.
TieOrders == {"keep", "reverse"}

\* no fetch_klines_range call is being followed page by page
NoFetch == [store |-> {}, end_time |-> 0, current_start |-> 0, all |-> <<>>,
            pages |-> <<>>]

\* features/pivots.rs: candles looked at on each side of a position
PIVOT_WINDOW == 5000

\* ewma_opts_from_span(50) and ewma_opts_from_span(200)
SourceSpans == [fast |-> 50, slow |-> 200]

\* the command-line argument of the run; an "m15" run is an "m5" run with
\* other file names and another interval
StreamArgs == {"trade", "m5", "h1"}

KlineStreams == {"m5", "m15"}

Closes == {7}

Payloads == {"p1"}

\* binance_client.rs: interval_ms of fetch_latest_klines, by stream type
interval_ms(st) == IF st = "m5" THEN 5 * 60 * 1000 ELSE 15 * 60 * 1000

OpenTimes(st) == {k * interval_ms(st) : k \in 1..MaxSlot}

Kline(t, c, st) ==
    [open_time |-> t, close |-> c, close_time |-> t + interval_ms(st) - 1]

Klines(st) == {Kline(t, c, st) : t \in OpenTimes(st), c \in Closes}

\* consecutive candles, ascending by open_time
Consecutive(s, st) ==
    \A i \in 1..(Len(s) - 1) :
        s[i + 1].open_time = s[i].open_time + interval_ms(st)

SeqsUpTo(S, n) == UNION {[1..k -> S] : k \in 0..n}

\* what the exchange can answer to a range request: consecutive candles;
\* the range [now - count * interval_ms, now] can hold count + 1 of them
ServerRanges(st) ==
    {s \in SeqsUpTo(Klines(st), HISTORICAL_COUNT + 1) : Consecutive(s, st)}

\* what the stream can deliver: the candles of the two latest slots
StreamedKlines(st) ==
    {k \in Klines(st) : k.open_time >= (MaxSlot - 1) * interval_ms(st)}

----------------------------------------------------------------------------
(* Paths chosen by main *)

cache_file(st) ==
    IF st = "m5" THEN "data/m5_latest_50000.parquet"
    ELSE IF st = "m15" THEN "data/m15_latest_50000.parquet" ELSE ""

csv_file(st) ==
    IF st = "m5" THEN "data/m5_latest_50000_raw.csv"
    ELSE IF st = "m15" THEN "data/m15_latest_50000_raw.csv" ELSE ""

feature_parquet(st) ==
    IF st = "m5" THEN "data/m5_features.parquet"
    ELSE IF st = "m15" THEN "data/m15_features.parquet" ELSE ""

feature_csv(st) ==
    IF st = "m5" THEN "data/m5_features.csv"
    ELSE IF st = "m15" THEN "data/m15_features.csv" ELSE ""

\* the seventh parameter of run; main.rs does not fix its value
streaming_csv_file(st) ==
    IF st = "m5" THEN "data/m5_streaming.csv"
    ELSE IF st = "m15" THEN "data/m15_streaming.csv" ELSE ""

\* the paths a run of the given stream type is handed
StreamPaths(st) ==
    {cache_file(st), csv_file(st), feature_parquet(st), feature_csv(st),
     streaming_csv_file(st)}

Paths == UNION {StreamPaths(st) : st \in StreamArgs}

----------------------------------------------------------------------------
(* Files *)

Absent == [exists |-> FALSE, lines |-> <<>>]

File(lines) == [exists |-> TRUE, lines |-> lines]

\* File::create / OpenOptions::open cannot succeed on the empty path, nor on
\* a path the process may not write (read-only, invalid, device full)
Creatable(path) == path # "" /\ path \notin unwritable

\* data_storage.rs: "%Y-%m-%d %H:%M:%S UTC" keeps whole seconds only
timestamp_to_string(ms) == [utc_seconds |-> ms \div 1000]

HeaderLine(cols) == [kind |-> "header", cells |-> cols]

KlineColumns == <<"open_time", "close", "close_time">>

KlineCsvLine(k) ==
    [kind |-> "row",
     cells |-> <<timestamp_to_string(k.open_time), k.close,
                 timestamp_to_string(k.close_time)>>]

\* data_storage.rs save_klines_to_parquet: the klines with the row numbers
\* klines_to_dataframe adds
klines_to_dataframe(klines) ==
    [i \in 1..Len(klines) |->
        [index |-> i, open_time |-> klines[i].open_time,
         close |-> klines[i].close, close_time |-> klines[i].close_time]]

save_klines_to_parquet(klines) == File(klines_to_dataframe(klines))

load_klines_from_parquet(file) ==
    [i \in 1..Len(file.lines) |->
        [open_time |-> file.lines[i].open_time,
         close |-> file.lines[i].close,
         close_time |-> file.lines[i].close_time]]

save_klines_to_csv(klines) ==
    File(<<HeaderLine(KlineColumns)>> \o
         [i \in 1..Len(klines) |-> KlineCsvLine(klines[i])])

\* mutant: the file is created anew for every candle, File::create
append_kline_to_csv_create(file, k) ==
    File(<<HeaderLine(KlineColumns)>> \o <<KlineCsvLine(k)>>)

append_kline_to_csv(file, k) ==
    File((IF file.exists THEN file.lines ELSE <<HeaderLine(KlineColumns)>>)
         \o <<KlineCsvLine(k)>>)

----------------------------------------------------------------------------
(* binance_client.rs *)

\* fetch_latest_klines: the range, trimmed to its last count candles
fetch_latest_klines(fetched, count) ==
    IF Len(fetched) > count
    THEN SubSeq(fetched, Len(fetched) - count + 1, Len(fetched))
    ELSE fetched

----------------------------------------------------------------------------
(* Initial state: the process has just started.  The disk is empty, or it  *)
(* holds the raw cache and raw log an earlier run left behind.             *)

\* a full window an earlier run cached: the oldest candles of the exchange
EarlierWindows(st) ==
    {s \in ServerRanges(st) :
        /\ Len(s) = HISTORICAL_COUNT
        /\ \A i \in 1..Len(s) : s[i].open_time = i * interval_ms(st)}

InitialDisks(st) ==
    {[p \in Paths |-> Absent]} \cup
    {[p \in Paths |->
        IF p = cache_file(st) /\ p # "" THEN save_klines_to_parquet(s)
        ELSE IF p = csv_file(st) /\ p # "" THEN save_klines_to_csv(s)
        ELSE Absent]
     : s \in EarlierWindows(st)}

NoMessage ==
    [frame |-> "none", json |-> "na", x |-> "na", fields |-> "na",
     nums |-> "na", payload |-> ""]

Init ==
    /\ pc = "main"
    /\ result = "running"
    /\ stream_type \in StreamArgs
    /\ raw_window = <<>>
    /\ features_df = <<>>
    /\ ncompute = 0
    /\ handles = <<>>
    /\ msg = NoMessage
    /\ sent = ""
    /\ fs \in InitialDisks(stream_type)
    /\ unwritable \in SUBSET (StreamPaths(stream_type) \ {""})
    /\ sort_ties \in TieOrders
    /\ ema_spans = SourceSpans
    /\ fetch = NoFetch
    /\ feature_window = <<>>

Terminate(how) ==
    /\ pc' = "terminated"
    /\ result' = how

----------------------------------------------------------------------------
(* main.rs *)

\* mutant: the match has no arm for an unknown stream type, which is run
\* like "trade"
Main_nocheck ==
    /\ pc = "main"
    /\ pc' = IF stream_type \in KlineStreams THEN "load" ELSE "run"
    /\ result' = result
    /\ UNCHANGED <<stream_type, raw_window, features_df, ncompute, handles,
                   msg, sent, fs, unwritable, sort_ties,
                   ema_spans, fetch,
                   feature_window>>

\* main: the match on the stream type
Main ==
    /\ pc = "main"
    /\ IF stream_type \notin {"m5", "m15", "trade"}
       THEN Terminate("exit1")
       ELSE /\ pc' = IF stream_type \in KlineStreams THEN "load" ELSE "run"
            /\ result' = result
    /\ UNCHANGED <<stream_type, raw_window, features_df, ncompute, handles,
                   msg, sent, fs, unwritable, sort_ties,
                   ema_spans, fetch,
                   feature_window>>

\* load_or_fetch_historical, and the hand-over of its result to run
LoadOrFetchHistorical ==
    /\ pc = "load"
    /\ \E dir_ok \in BOOLEAN, stale \in BOOLEAN, fetch_ok \in BOOLEAN,
          fetched \in ServerRanges(stream_type), load_ok \in BOOLEAN :
        LET cache == cache_file(stream_type)
            csv == csv_file(stream_type)
            should_fetch == IF fs[cache].exists THEN stale ELSE TRUE
            klines == IF should_fetch
                      THEN fetch_latest_klines(fetched, HISTORICAL_COUNT)
                      ELSE load_klines_from_parquet(fs[cache])
            fs1 == IF should_fetch
                   THEN [fs EXCEPT ![cache] = save_klines_to_parquet(klines)]
                   ELSE fs
            \* the initial CSV: a failure is only a warning
            fs2 == IF ~fs1[csv].exists /\ Creatable(csv)
                   THEN [fs1 EXCEPT ![csv] = save_klines_to_csv(klines)]
                   ELSE fs1
        IN  IF ~dir_ok                          \* create_dir_all(parent)?
            THEN Terminate("io_error") /\ UNCHANGED <<raw_window, fs>>
            ELSE IF should_fetch /\ ~fetch_ok   \* fetch_latest_klines(..)?
            THEN Terminate("fetch_error") /\ UNCHANGED <<raw_window, fs>>
            ELSE IF should_fetch /\ ~Creatable(cache)
                                                \* save_klines_to_parquet(..)?
            THEN Terminate("persistence_error") /\ UNCHANGED <<raw_window, fs>>
            ELSE IF ~should_fetch /\ ~load_ok   \* load_klines_from_parquet(..)?
            THEN Terminate("io_error") /\ UNCHANGED <<raw_window, fs>>
            ELSE /\ fs' = fs2
                 /\ raw_window' = klines
                 /\ pc' = "run"
                 /\ result' = result
    /\ UNCHANGED <<stream_type, features_df, ncompute, handles, msg,
                   sent, unwritable, sort_ties,
                   ema_spans, fetch,
                   feature_window>>

----------------
(* features/mod.rs *)

FeatureColumns ==
    <<"index", "open_time", "close", "close_time", "datetime", "ema50_m15",
      "ema200_m15", "ema50_h1", "ema200_h1", "ema50_h4", "ema200_h4">>

\* rows of klines_to_dataframe with the datetime column cast from open_time
WithDatetime(df) ==
    [i \in 1..Len(df) |->
        [index |-> df[i].index, open_time |-> df[i].open_time,
         close |-> df[i].close, close_time |-> df[i].close_time,
         datetime |-> df[i].open_time]]

Perms(n) ==
    {p \in [1..n -> 1..n] : \A i \in 1..n : \E j \in 1..n : p[j] = i}

SortedBy(df, col) ==
    \A i \in 1..Len(df) - 1 : df[i][col] <= df[i + 1][col]

TiesOrdered(s, col) ==
    \A i, j \in 1..Len(s) :
        (i < j /\ s[i][col] = s[j][col]) =>
            IF sort_ties = "keep" THEN s[i].index < s[j].index
                                  ELSE s[i].index > s[j].index

\* mutant: the rows with equal datetime come out in any order, call by call
SortOutcomes_anyorder(df, col) ==
    {s \in {[i \in 1..Len(df) |-> df[p[i]]] : p \in Perms(Len(df))}
        : SortedBy(s, col)}

\* .sort(["datetime"], Default::default()): maintain_order is false, so the
\* order of rows with equal datetime is the build's, not the input's
SortOutcomes(df, col) ==
    {s \in {[i \in 1..Len(df) |-> df[p[i]]] : p \in Perms(Len(df))}
        : SortedBy(s, col) /\ TiesOrdered(s, col)}

----------------------------------------------------------------------------
(* features/ema.rs *)

\* a float column cell: null, or the rational num / den
Null == [null |-> TRUE, num |-> 0, den |-> 1]

Value(n, d) == [null |-> FALSE, num |-> n, den |-> d]

RECURSIVE Pow(_, _)
Pow(b, e) == IF e = 0 THEN 1 ELSE b * Pow(b, e - 1)

RECURSIVE SumTo(_, _)
SumTo(f, n) == IF n = 0 THEN 0 ELSE f[n] + SumTo(f, n - 1)

\* ewm_mean under ewma_opts_from_span(span): alpha = 2 / (span + 1),
\* adjust = true, min_periods = span. Row i is the weighted mean of rows
\* 1..i with weights (1 - alpha)^(i - j), scaled here by (span + 1)^(i - 1)
\* to stay in the integers; it is null on the first span - 1 rows.
ewm_mean(xs, span) ==
    [i \in 1..Len(xs) |->
        IF i < span
        THEN Null
        ELSE LET w == [j \in 1..i |-> Pow(span - 1, i - j) * Pow(span + 1, j - 1)]
             IN  Value(SumTo([j \in 1..i |-> w[j] * xs[j]], i), SumTo(w, i))]

H1 == 60 * 60 * 1000

H4 == 4 * H1

SetMax(S) == CHOOSE x \in S : \A y \in S : y <= x

\* group_by_dynamic(col("datetime"), [], options).agg([col("close").last()])
\* with every = period = interval, offset = 0, closed_window = Right and
\* start_by = DataPoint: the windows are (t0 + k * every, t0 + (k+1) * every]
\* from the first row's datetime t0, one output row per non-empty window,
\* labelled with the window's lower bound. df is sorted by datetime.
group_by_dynamic(df, every) ==
    IF Len(df) = 0
    THEN <<>>
    ELSE LET n == Len(df)
             t0 == df[1].datetime
             lower(k) == t0 + k * every
             members(k) == {i \in 1..n : /\ lower(k) < df[i].datetime
                                         /\ df[i].datetime <= lower(k) + every}
             windows == [k \in 1..((df[n].datetime - t0) \div every) + 1 |-> k - 1]
             nonempty == SelectSeq(windows, LAMBDA k : members(k) # {})
         IN  [w \in 1..Len(nonempty) |->
                [datetime |-> lower(nonempty[w]),
                 close |-> df[SetMax(members(nonempty[w]))].close]]

\* compute_resampled_ema: the resampled closes and their EMA, as the
\* two-column table [datetime, col_name]
compute_resampled_ema(df, every, span) ==
    LET resampled == group_by_dynamic(df, every)
        ema == ewm_mean([i \in 1..Len(resampled) |-> resampled[i].close], span)
    IN  [i \in 1..Len(resampled) |->
            [datetime |-> resampled[i].datetime, value |-> ema[i]]]

\* mutant: an inner join, which drops the rows that have no match
RECURSIVE LeftJoin_inner(_, _, _)
LeftJoin_inner(left, right, col) ==
    IF left = <<>>
    THEN <<>>
    ELSE LET l == Head(left)
             matches == SelectSeq(right, LAMBDA r : r.datetime = l.datetime)
         IN  [m \in 1..Len(matches) |-> [l EXCEPT ![col] = matches[m].value]]
             \o LeftJoin_inner(Tail(left), right, col)

\* df.lazy().join(ema_df.lazy(), [col("datetime")], [col("datetime")],
\* JoinArgs::new(JoinType::Left)): every left row once per matching right
\* row, or once with a null when there is none
RECURSIVE LeftJoin(_, _, _)
LeftJoin(left, right, col) ==
    IF left = <<>>
    THEN <<>>
    ELSE LET l == Head(left)
             matches == SelectSeq(right, LAMBDA r : r.datetime = l.datetime)
         IN  (IF matches = <<>>
              THEN <<[l EXCEPT ![col] = Null]>>
              ELSE [m \in 1..Len(matches) |->
                       [l EXCEPT ![col] = matches[m].value]])
             \o LeftJoin(Tail(left), right, col)

\* mutant: the merged columns are left as the joins give them, unfilled
fill_null_forward_skip(df, col) == df

\* col(name).fill_null(FillNullStrategy::Forward(None))
fill_null_forward(df, col) ==
    LET filled[i \in 0..Len(df)] ==
            IF i = 0 THEN Null
            ELSE IF df[i][col] # Null THEN df[i][col] ELSE filled[i - 1]
    IN  [i \in 1..Len(df) |-> [df[i] EXCEPT ![col] = filled[i]]]

EmaColumns ==
    <<"ema50_h1", "ema200_h1", "ema50_h4", "ema200_h4", "ema50_m15",
      "ema200_m15">>

RECURSIVE FillAll(_, _)
FillAll(df, cols) ==
    IF cols = <<>> THEN df
    ELSE FillAll(fill_null_forward(df, Head(cols)), Tail(cols))

\* add_ema_features: the two EMAs of the base timeframe, the four resampled
\* EMAs merged on datetime, then the forward fill of the six columns
add_ema_features(df) ==
    LET closes == [i \in 1..Len(df) |-> df[i].close]
        ema50 == ewm_mean(closes, ema_spans.fast)
        ema200 == ewm_mean(closes, ema_spans.slow)
        base == [i \in 1..Len(df) |->
                    [index |-> df[i].index, open_time |-> df[i].open_time,
                     close |-> df[i].close, close_time |-> df[i].close_time,
                     datetime |-> df[i].datetime,
                     ema50_m15 |-> ema50[i], ema200_m15 |-> ema200[i],
                     ema50_h1 |-> Null, ema200_h1 |-> Null,
                     ema50_h4 |-> Null, ema200_h4 |-> Null]]
        h1_ema50 == compute_resampled_ema(df, H1, ema_spans.fast)
        h1_ema200 == compute_resampled_ema(df, H1, ema_spans.slow)
        h4_ema50 == compute_resampled_ema(df, H4, ema_spans.fast)
        h4_ema200 == compute_resampled_ema(df, H4, ema_spans.slow)
        j1 == LeftJoin(base, h1_ema50, "ema50_h1")
        j2 == LeftJoin(j1, h1_ema200, "ema200_h1")
        j3 == LeftJoin(j2, h4_ema50, "ema50_h4")
        j4 == LeftJoin(j3, h4_ema200, "ema200_h4")
    IN  FillAll(j4, EmaColumns)

----------------------------------------------------------------------------
(* features/mod.rs: compute_features *)

\* compute_features: klines_to_dataframe, the datetime column, the sort by
\* datetime, then the EMA features; the set of tables it can return for a
\* slice of klines (the pivot columns are not modelled)
compute_features(klines) ==
    {add_ema_features(sorted) :
        sorted \in SortOutcomes(WithDatetime(klines_to_dataframe(klines)),
                                "datetime")}

----------------------------------------------------------------------------
(* data_storage.rs: feature table writers *)

FeatureCsvLine(r) ==
    [kind |-> "row",
     cells |-> <<r.index, timestamp_to_string(r.open_time), r.close,
                 timestamp_to_string(r.close_time), r.datetime, r.ema50_m15,
                 r.ema200_m15, r.ema50_h1, r.ema200_h1, r.ema50_h4,
                 r.ema200_h4>>]

save_dataframe_parquet(df) == File(df)

save_dataframe_csv_to_path(df) ==
    File(<<HeaderLine(FeatureColumns)>> \o
         [i \in 1..Len(df) |-> FeatureCsvLine(df[i])])

\* mutant: the header is written by every append, not only by the first
append_features_row_to_csv_reheader(file, df) ==
    IF Len(df) = 0
    THEN File(file.lines)
    ELSE File(file.lines \o <<HeaderLine(FeatureColumns)>>
              \o <<FeatureCsvLine(df[Len(df)])>>)

\* the file is opened (and so created) before the empty-table early return
append_features_row_to_csv(file, df) ==
    IF Len(df) = 0
    THEN File(file.lines)
    ELSE File((IF file.exists THEN file.lines
               ELSE <<HeaderLine(FeatureColumns)>>)
              \o <<FeatureCsvLine(df[Len(df)])>>)

----------------------------------------------------------------------------
(* live_stream.rs *)

\* mutant: the slice is one candle shorter than FEATURE_WINDOW_SIZE allows
feature_slice_short(window) ==
    LET n == Len(window)
        skip == IF n >= FEATURE_WINDOW_SIZE
                THEN n - (FEATURE_WINDOW_SIZE - 1) ELSE 0
    IN  SubSeq(window, skip + 1, n)

\* raw_window.iter().skip(len.saturating_sub(FEATURE_WINDOW_SIZE))
feature_slice(window) ==
    LET n == Len(window)
        skip == IF n > FEATURE_WINDOW_SIZE THEN n - FEATURE_WINDOW_SIZE ELSE 0
    IN  SubSeq(window, skip + 1, n)

\* mutant: the push without the eviction
push_evict_keep(window, k) == Append(window, k)

\* raw_window.push_back(k); if len > HISTORICAL_COUNT { pop_front() }
push_evict(window, k) ==
    LET pushed == Append(window, k)
    IN  IF Len(pushed) > HISTORICAL_COUNT THEN Tail(pushed) ELSE pushed

\* mutant: the run connects without the initial persistence pass
Bootstrap_nosave ==
    /\ pc = "run"
    /\ \E df \in compute_features(feature_slice(raw_window)) :
        /\ ncompute' = ncompute + 1
        /\ features_df' = df
        /\ pc' = "connect"
    /\ UNCHANGED <<result, stream_type, raw_window, handles, msg, sent, fs,
                   unwritable, sort_ties,
                   ema_spans, fetch,
                   feature_window>>

\* run, from its entry to the connection: the initial feature table and
\* its two saves, each propagated with `?`
Bootstrap ==
    /\ pc = "run"
    /\ \E compute_ok \in BOOLEAN :
       \E df \in compute_features(feature_slice(raw_window)) :
        LET pq == feature_parquet(stream_type)
            cs == feature_csv(stream_type)
            fs1 == [fs EXCEPT ![pq] = save_dataframe_parquet(df)]
            fs2 == [fs1 EXCEPT ![cs] = save_dataframe_csv_to_path(df)]
        IN  /\ ncompute' = ncompute + 1
            /\ IF ~compute_ok
               THEN Terminate("compute_error") /\ UNCHANGED <<features_df, fs>>
               ELSE /\ features_df' = df
                    /\ IF ~Creatable(pq)
                       THEN Terminate("persistence_error") /\ fs' = fs
                       ELSE IF ~Creatable(cs)
                       THEN Terminate("persistence_error") /\ fs' = fs1
                       ELSE /\ fs' = fs2
                            /\ pc' = "connect"
                            /\ result' = result
    /\ UNCHANGED <<stream_type, raw_window, handles, msg, sent,
                   unwritable, sort_ties,
                   ema_spans, fetch,
                   feature_window>>

\* run: the stream name, the URL and connect_async
Connect ==
    /\ pc = "connect"
    /\ \E connect_ok \in BOOLEAN :
        IF connect_ok
        THEN pc' = "streaming" /\ result' = result
        ELSE Terminate("transport_error")           \* connect_async(url).await?
    /\ UNCHANGED <<stream_type, raw_window, features_df, ncompute, handles,
                   msg, sent, fs, unwritable, sort_ties,
                   ema_spans, fetch,
                   feature_window>>

Message(frame, json, x, fields, nums, payload) ==
    [frame |-> frame, json |-> json, x |-> x, fields |-> fields,
     nums |-> nums, payload |-> payload]

\* the items read.next() can yield, by what the loop looks at:
\*   frame   Err item, Text, Ping or any other frame
\*   json    text that is not JSON, a trade object, an object without an
\*           object under "k", or a kline object
\*   x       k.x is true, false, not a boolean, or not a key of k
\*   fields  o h l c v t T all have the expected type, one has another
\*           type, or one is not a key of k
\*   nums    whether o h l c v all parse as f64
Frames ==
    {Message("error", "na", "na", "na", "na", "")}
    \cup {Message("ping", "na", "na", "na", "na", p) : p \in Payloads}
    \cup {Message("other", "na", "na", "na", "na", "")}
    \cup {Message("text", "invalid", "na", "na", "na", "")}

TradeTexts ==
    {Message("text", "trade", "na", f, "na", "") : f \in {"ok", "wrongtype"}}

KlineTexts ==
    {Message("text", "no_k", "na", "na", "na", "")}
    \cup {Message("text", "kline", "true", f, "na", "")
            : f \in {"wrongtype", "missing"}}
    \cup {Message("text", "kline", "true", "ok", n, "") : n \in {"ok", "bad"}}
    \cup {Message("text", "kline", "false", "ok", "ok", ""),
          Message("text", "kline", "false", "missing", "na", ""),
          Message("text", "kline", "nonbool", "ok", "ok", ""),
          Message("text", "kline", "missing", "ok", "ok", "")}

\* the exchange sends trade objects on the trade stream and kline objects
\* on the kline streams
Messages(st) == Frames \cup (IF st = "trade" THEN TradeTexts ELSE KlineTexts)

Task(op, path, arg) ==
    [op |-> op, path |-> path, arg |-> arg, status |-> "pending",
     logged |-> FALSE]

\* mutant: the feature CSV snapshot is not spawned
SpawnedTasks_four(df, new_kline, window, st) ==
    << Task("save_dataframe_parquet", feature_parquet(st), df),
       Task("append_features_row_to_csv", streaming_csv_file(st), df),
       Task("append_kline_to_csv", csv_file(st), new_kline),
       Task("save_klines_to_parquet", cache_file(st), window) >>

\* the five tokio::spawn calls of a closed candle, in spawn order
SpawnedTasks(df, new_kline, window, st) ==
    << Task("save_dataframe_parquet", feature_parquet(st), df),
       Task("save_dataframe_csv_to_path", feature_csv(st), df),
       Task("append_features_row_to_csv", streaming_csv_file(st), df),
       Task("append_kline_to_csv", csv_file(st), new_kline),
       Task("save_klines_to_parquet", cache_file(st), window) >>

\* mutant: an iteration that consumes no candle still dispatches the write
\* of the raw snapshot
Continue_dispatch ==
    /\ pc' = "joining"
    /\ result' = result
    /\ sent' = ""
    /\ handles' = <<Task("save_klines_to_parquet", cache_file(stream_type),
                         raw_window)>>
    /\ UNCHANGED <<raw_window, features_df, ncompute>>

\* the iteration ends without having touched the window or the socket
Continue ==
    /\ pc' = "streaming"
    /\ result' = result
    /\ sent' = ""
    /\ UNCHANGED <<raw_window, features_df, ncompute, handles>>

\* run returns an error from inside the loop
Fail(how) ==
    /\ Terminate(how)
    /\ sent' = ""
    /\ UNCHANGED <<raw_window, features_df, ncompute, handles>>

\* mutant: the failed item is dropped and the loop reads on
TransportFailure_skip == Continue

\* `message?` on an Err item, and `write.send(Pong).await?` on a failed send
TransportFailure == Fail("transport_error")

\* mutant: the is_closed test is missing
SkipsCandle_never(m) == FALSE

\* if let Some(is_closed) = kline["x"].as_bool() { if !is_closed { continue } }
SkipsCandle(m) == m.x = "false"

\* mutant: the table is carried over from the previous event and extended by
\* the row of the new candle instead of being computed again
ConsumeCandle_incremental(new_kline, compute_ok) ==
    LET window == push_evict(raw_window, new_kline)
    IN  /\ raw_window' = window
        /\ ncompute' = ncompute + 1
        /\ sent' = ""
        /\ IF ~compute_ok
           THEN /\ Terminate("compute_error")
                /\ UNCHANGED <<features_df, handles>>
           ELSE \E row \in compute_features(<<new_kline>>) :
                LET df == feature_slice(features_df \o row)
                IN  /\ features_df' = df
                    /\ handles' = SpawnedTasks(df, new_kline, window,
                                               stream_type)
                    /\ pc' = "joining"
                    /\ result' = result

\* mutant: the writes are spawned with the table of before the recompute
ConsumeCandle_stale(new_kline, compute_ok) ==
    LET window == push_evict(raw_window, new_kline)
    IN  /\ raw_window' = window
        /\ ncompute' = ncompute + 1
        /\ sent' = ""
        /\ IF ~compute_ok
           THEN /\ Terminate("compute_error")
                /\ UNCHANGED <<features_df, handles>>
           ELSE \E df \in compute_features(feature_slice(window)) :
                /\ features_df' = df
                /\ handles' = SpawnedTasks(features_df, new_kline, window,
                                           stream_type)
                /\ pc' = "joining"
                /\ result' = result

\* mutant: the table is computed on a copy of the window that holds the new
\* candle, and the window itself is updated only when that succeeds
ConsumeCandle_computefirst(new_kline, compute_ok) ==
    LET window == push_evict(raw_window, new_kline)
    IN  /\ ncompute' = ncompute + 1
        /\ sent' = ""
        /\ IF ~compute_ok
           THEN /\ Terminate("compute_error")
                /\ UNCHANGED <<raw_window, features_df, handles>>
           ELSE \E df \in compute_features(feature_slice(window)) :
                /\ raw_window' = window
                /\ features_df' = df
                /\ handles' = SpawnedTasks(df, new_kline, window, stream_type)
                /\ pc' = "joining"
                /\ result' = result

\* the closed-candle path: push + evict, feature slice, compute_features,
\* and the spawn of the write tasks
ConsumeCandle(new_kline, compute_ok) ==
    LET window == push_evict(raw_window, new_kline)
    IN  /\ raw_window' = window
        /\ ncompute' = ncompute + 1
        /\ sent' = ""
        /\ IF ~compute_ok
           THEN /\ Terminate("compute_error")    \* compute_features(..)?
                /\ UNCHANGED <<features_df, handles>>
           ELSE \E df \in compute_features(feature_slice(window)) :
                /\ features_df' = df
                /\ handles' = SpawnedTasks(df, new_kline, window, stream_type)
                /\ pc' = "joining"
                /\ result' = result

\* the body of the kline arm for a kline object
HandleKline(m) ==
    IF m.x = "missing"
    THEN Fail("panic")                      \* kline["x"]: no such key
    ELSE IF SkipsCandle(m)
    THEN Continue                           \* continue
    ELSE IF m.fields = "missing"
    THEN Fail("panic")                      \* kline["o"]: no such key
    ELSE IF m.fields = "wrongtype"
    THEN Continue                           \* the if let does not match
    ELSE IF m.nums = "bad"
    THEN Fail("parse_error")                \* parse::<f64>()?
    ELSE \E new_kline \in StreamedKlines(stream_type), compute_ok \in BOOLEAN :
            ConsumeCandle(new_kline, compute_ok)

\* mutant: the next message is read while the writes of the last closed
\* candle are still being awaited
ReadMessage_overlap ==
    /\ pc \in {"streaming", "joining"}
    /\ ncompute <= MaxCandles
    /\ \E m \in Messages(stream_type) :
        /\ msg' = m
        /\ IF m.frame = "error"
           THEN TransportFailure
           ELSE IF m.frame = "ping"
           THEN \E pong_ok \in BOOLEAN :
                IF pong_ok
                THEN /\ sent' = m.payload
                     /\ pc' = "streaming"
                     /\ result' = result
                     /\ UNCHANGED <<raw_window, features_df, ncompute,
                                    handles>>
                ELSE TransportFailure
           ELSE IF m.frame = "other"
           THEN Continue
           ELSE IF m.json = "invalid"
           THEN Fail("parse_error")        \* serde_json::from_str(&text)?
           ELSE IF stream_type = "trade"
           THEN Continue                   \* a trade is printed, or nothing
           ELSE IF m.json = "kline"
           THEN HandleKline(m)
           ELSE Continue                   \* data["k"] is not an object
    /\ UNCHANGED <<stream_type, fs, unwritable, sort_ties,
                   ema_spans, fetch,
                   feature_window>>

\* one iteration of the while let loop, up to join_all
ReadMessage ==
    /\ pc = "streaming"
    /\ ncompute <= MaxCandles
    /\ \E m \in Messages(stream_type) :
        /\ msg' = m
        /\ IF m.frame = "error"
           THEN TransportFailure
           ELSE IF m.frame = "ping"
           THEN \E pong_ok \in BOOLEAN :
                IF pong_ok
                THEN /\ sent' = m.payload
                     /\ pc' = "streaming"
                     /\ result' = result
                     /\ UNCHANGED <<raw_window, features_df, ncompute,
                                    handles>>
                ELSE TransportFailure
           ELSE IF m.frame = "other"
           THEN Continue
           ELSE IF m.json = "invalid"
           THEN Fail("parse_error")        \* serde_json::from_str(&text)?
           ELSE IF stream_type = "trade"
           THEN Continue                   \* a trade is printed, or nothing
           ELSE IF m.json = "kline"
           THEN HandleKline(m)
           ELSE Continue                   \* data["k"] is not an object
    /\ UNCHANGED <<stream_type, fs, unwritable, sort_ties,
                   ema_spans, fetch,
                   feature_window>>

\* mutant: the raw snapshot is written behind what the file already holds
ApplyWrite_append(task, file) ==
    CASE task.op = "save_dataframe_parquet" ->
            save_dataframe_parquet(task.arg)
      [] task.op = "save_dataframe_csv_to_path" ->
            save_dataframe_csv_to_path(task.arg)
      [] task.op = "append_features_row_to_csv" ->
            append_features_row_to_csv(file, task.arg)
      [] task.op = "append_kline_to_csv" ->
            append_kline_to_csv(file, task.arg)
      [] task.op = "save_klines_to_parquet" ->
            File(file.lines \o save_klines_to_parquet(task.arg).lines)

\* what a spawned task does to its file when the write succeeds: each
\* *_async function called by run is taken to perform the write of the
\* data_storage.rs function it is named after
ApplyWrite(task, file) ==
    CASE task.op = "save_dataframe_parquet" ->
            save_dataframe_parquet(task.arg)
      [] task.op = "save_dataframe_csv_to_path" ->
            save_dataframe_csv_to_path(task.arg)
      [] task.op = "append_features_row_to_csv" ->
            append_features_row_to_csv(file, task.arg)
      [] task.op = "append_kline_to_csv" ->
            append_kline_to_csv(file, task.arg)
      [] task.op = "save_klines_to_parquet" ->
            save_klines_to_parquet(task.arg)

\* mutant: the write error is propagated with `?` instead of being printed
RunTask_propagate(i) ==
    /\ pc = "joining"
    /\ i \in 1..Len(handles)
    /\ handles[i].status = "pending"
    /\ LET task == handles[i]
       IN  IF Creatable(task.path)
           THEN /\ fs' = [fs EXCEPT ![task.path] = ApplyWrite(task, @)]
                /\ handles' = [handles EXCEPT ![i].status = "ok"]
                /\ UNCHANGED <<pc, result>>
           ELSE /\ fs' = fs
                /\ handles' = [handles EXCEPT ![i].status = "failed"]
                /\ Terminate("persistence_error")
    /\ UNCHANGED <<stream_type, raw_window, features_df, ncompute, msg,
                   sent, unwritable, sort_ties,
                   ema_spans, fetch,
                   feature_window>>

\* the i-th spawned task runs: the write, and eprintln! when it fails
RunTask(i) ==
    /\ pc = "joining"
    /\ i \in 1..Len(handles)
    /\ handles[i].status = "pending"
    /\ LET task == handles[i]
       IN  IF Creatable(task.path)
           THEN /\ fs' = [fs EXCEPT ![task.path] = ApplyWrite(task, @)]
                /\ handles' = [handles EXCEPT ![i].status = "ok"]
           ELSE /\ fs' = fs
                /\ handles' = [handles EXCEPT ![i].status = "failed",
                                              ![i].logged = TRUE]
    /\ UNCHANGED <<pc, result, stream_type, raw_window, features_df,
                   ncompute, msg, sent, unwritable, sort_ties,
                   ema_spans, fetch,
                   feature_window>>

\* mutant: the loop goes on without awaiting the handles
JoinAll_nowait ==
    /\ pc = "joining"
    /\ pc' = "streaming"
    /\ UNCHANGED <<result, stream_type, raw_window, features_df, ncompute,
                   handles, msg, sent, fs, unwritable, sort_ties, ema_spans, fetch,
          feature_window>>

\* mutant: the loop goes on as soon as one handle has finished
JoinAll_any ==
    /\ pc = "joining"
    /\ \E i \in 1..Len(handles) : handles[i].status # "pending"
    /\ pc' = "streaming"
    /\ UNCHANGED <<result, stream_type, raw_window, features_df, ncompute,
                   handles, msg, sent, fs, unwritable, sort_ties, ema_spans, fetch,
          feature_window>>

\* join_all(handles).await returns once every task has finished; the
\* iteration ends and its handles are dropped
JoinAll ==
    /\ pc = "joining"
    /\ \A i \in 1..Len(handles) : handles[i].status # "pending"
    /\ pc' = "streaming"
    /\ handles' = <<>>
    /\ UNCHANGED <<result, stream_type, raw_window, features_df, ncompute,
                   msg, sent, fs, unwritable, sort_ties,
                   ema_spans, fetch,
                   feature_window>>

\* read.next() yields None: the loop ends and run returns Ok(())
StreamEnd ==
    /\ pc = "streaming"
    /\ Terminate("ok")
    /\ UNCHANGED <<stream_type, raw_window, features_df, ncompute, handles,
                   msg, sent, fs, unwritable, sort_ties,
                   ema_spans, fetch,
                   feature_window>>

----------------------------------------------------------------------------

Next ==
    \/ Main
    \/ LoadOrFetchHistorical
    \/ Bootstrap
    \/ Connect
    \/ ReadMessage
    \/ \E i \in 1..Len(handles) : RunTask(i)
    \/ JoinAll
    \/ StreamEnd

Spec == Init /\ [][Next]_vars

----------------------------------------------------------------------------
(* Properties *)

NumTasks(h, ops) == Cardinality({i \in 1..Len(h) : h[i].op \in ops})

Finished(h) == \A i \in 1..Len(h) : h[i].status \in {"ok", "failed"}

\* a step of the loop that pushes a candle onto the raw window
Consumes == pc = "streaming" /\ ncompute' = ncompute + 1

\* C1: in every reachable state the raw window holds at most
\* HISTORICAL_COUNT candles.
C1_RawWindowBounded == Len(raw_window) <= HISTORICAL_COUNT

\* a closed candle was pushed onto a full window (the cache still holds the
\* full window of before) and the window is full again
C1_Witness ==
    /\ pc = "joining"
    /\ handles[5].status = "pending"
    /\ Len(fs[cache_file(stream_type)].lines) = HISTORICAL_COUNT
    /\ Len(raw_window) = HISTORICAL_COUNT

\* C2: a push onto a full window leaves it full, evicts exactly the previous
\* head, puts the new candle at the tail, keeps the order of the others, and
\* the head that survives has the smallest open_time of the window.
C2_PushOnFullWindow ==
    [][(Consumes /\ pc' = "joining" /\ Len(raw_window) = HISTORICAL_COUNT) =>
        /\ Len(raw_window') = HISTORICAL_COUNT
        /\ \A i \in 1..(HISTORICAL_COUNT - 1) : raw_window'[i] = raw_window[i + 1]
        /\ raw_window'[HISTORICAL_COUNT] = handles'[4].arg
        /\ \A i \in 1..HISTORICAL_COUNT :
            raw_window'[1].open_time <= raw_window'[i].open_time]_vars

\* a closed candle older than the head was pushed onto a full window: the
\* head that survives is not the oldest candle of the window
C2_Witness ==
    /\ pc = "joining"
    /\ handles[5].status = "pending"
    /\ Len(fs[cache_file(stream_type)].lines) = HISTORICAL_COUNT
    /\ Len(raw_window) = HISTORICAL_COUNT
    /\ raw_window[HISTORICAL_COUNT] = handles[4].arg
    /\ raw_window[HISTORICAL_COUNT].open_time < raw_window[1].open_time

\* C3: a kline event whose is_closed flag is false changes no window,
\* triggers no feature computation and dispatches no write.
C3_UnclosedIgnored ==
    [][(pc = "streaming" /\ msg'.json = "kline" /\ msg'.x = "false") =>
        /\ raw_window' = raw_window
        /\ features_df' = features_df
        /\ ncompute' = ncompute
        /\ handles' = handles
        /\ fs' = fs]_vars

\* an unclosed but otherwise well-formed kline event was read by a run
\* whose window holds candles
C3_Witness ==
    /\ msg.json = "kline" /\ msg.x = "false"
    /\ msg.fields = "ok" /\ msg.nums = "ok"
    /\ pc = "streaming"
    /\ Len(raw_window) > 0

\* C4: a kline event is consumed only if its is_closed flag is present and
\* equal to true.
C4_OnlyClosedConsumed == [][Consumes => msg'.x = "true"]_vars

\* a kline event whose "x" is not a boolean was consumed: its writes are
\* dispatched
C4_Witness ==
    /\ pc = "joining"
    /\ msg.json = "kline" /\ msg.x = "nonbool"
    /\ Len(handles) = 5

\* C5: no two candles of the raw window share an open_time.
C5_NoDuplicateOpenTime ==
    \A i \in 1..Len(raw_window) : \A j \in 1..Len(raw_window) :
        i # j => raw_window[i].open_time # raw_window[j].open_time

\* the closed candle just pushed has the open_time of the candle before it
C5_Witness ==
    /\ pc = "joining"
    /\ msg.x = "true"
    /\ Len(raw_window) >= 2
    /\ raw_window[Len(raw_window)] = handles[4].arg
    /\ raw_window[Len(raw_window) - 1].open_time = handles[4].arg.open_time

\* C6: the raw window is ordered by non-decreasing open_time from head to
\* tail.
C6_RawWindowOrdered ==
    \A i \in 1..(Len(raw_window) - 1) :
        raw_window[i].open_time <= raw_window[i + 1].open_time

\* the closed candle just pushed is older than the candle before it
C6_Witness ==
    /\ pc = "joining"
    /\ msg.x = "true"
    /\ Len(raw_window) >= 2
    /\ raw_window[Len(raw_window)] = handles[4].arg
    /\ raw_window[Len(raw_window) - 1].open_time > handles[4].arg.open_time

\* C7 as stated: a closed candle dispatches exactly four writes, one
\* overwrite of the feature table, one overwrite of the raw window, one
\* append of the feature row and one append of the raw candle.
C7_FourWrites ==
    pc = "joining" =>
        /\ Len(handles) = 4
        /\ NumTasks(handles, {"save_dataframe_parquet",
                              "save_dataframe_csv_to_path"}) = 1
        /\ NumTasks(handles, {"save_klines_to_parquet"}) = 1
        /\ NumTasks(handles, {"append_features_row_to_csv"}) = 1
        /\ NumTasks(handles, {"append_kline_to_csv"}) = 1

\* C7 amended: a closed candle dispatches exactly five writes: two
\* overwrites of the feature table (Parquet and CSV), one overwrite of the
\* raw window, one append of the feature row and one append of the raw
\* candle; while streaming, a file changes only by one of these tasks
\* completing, and only the file of that task.
C7_FiveWrites ==
    [][/\ pc' = "joining" =>
            /\ Len(handles') = 5
            /\ NumTasks(handles', {"save_dataframe_parquet"}) = 1
            /\ NumTasks(handles', {"save_dataframe_csv_to_path"}) = 1
            /\ NumTasks(handles', {"save_klines_to_parquet"}) = 1
            /\ NumTasks(handles', {"append_features_row_to_csv"}) = 1
            /\ NumTasks(handles', {"append_kline_to_csv"}) = 1
       /\ (pc \in {"streaming", "joining"} /\ fs' # fs) =>
            \E i \in 1..Len(handles) :
                /\ handles[i].status = "pending"
                /\ handles'[i].status = "ok"
                /\ \A p \in Paths : p # handles[i].path => fs'[p] = fs[p]]_vars

\* all the writes of a closed candle have completed
C7_Witness ==
    /\ pc = "joining"
    /\ Len(handles) = 5
    /\ \A i \in 1..Len(handles) : handles[i].status = "ok"

\* C8: while the writes of a closed candle run, a failed write is logged,
\* the run goes on, every write still pending can run, the loop resumes
\* only when all have been attempted, and it can then read the next message.
C8_WriteFailureIsolated ==
    [][/\ pc = "joining" =>
            /\ pc' \in {"joining", "streaming"}
            /\ result' = "running"
            /\ \A i \in 1..Len(handles') :
                handles'[i].status = "failed" => handles'[i].logged
            /\ \A i \in 1..Len(handles) :
                handles[i].status = "pending" => ENABLED RunTask(i)
            /\ pc' = "streaming" => Len(handles) = 5 /\ Finished(handles)
       /\ (pc = "streaming" /\ ncompute <= MaxCandles) =>
            ENABLED ReadMessage]_vars

\* one write of a closed candle has failed and was logged, and the others
\* have all succeeded
C8_Witness ==
    /\ pc = "joining"
    /\ \E i \in 1..Len(handles) :
        /\ handles[i].status = "failed"
        /\ handles[i].logged
        /\ \A j \in 1..Len(handles) : j # i => handles[j].status = "ok"

\* C9: a persistence error never terminates the run.
C9_PersistenceNeverFatal == result # "persistence_error"

\* the bootstrap computed the feature table, could not save it, and the run
\* ended before it connected
C9_Witness ==
    /\ pc = "terminated"
    /\ result = "persistence_error"
    /\ ncompute = 1
    /\ Len(raw_window) > 0
    /\ feature_parquet(stream_type) \in unwritable

\* C10: an Err item, a Ping whose Pong could not be sent, or a failed
\* connect ends the run with a transport error, and a run that has ended
\* takes no further step (it does not connect again).
C10_TransportFailureTerminal ==
    [][/\ (pc = "streaming" /\ msg'.frame = "error") =>
            pc' = "terminated" /\ result' = "transport_error"
       /\ (pc = "streaming" /\ msg'.frame = "ping" /\ sent' # msg'.payload) =>
            pc' = "terminated" /\ result' = "transport_error"
       /\ (pc = "connect" /\ pc' # "streaming") =>
            pc' = "terminated" /\ result' = "transport_error"
       /\ pc # "terminated"]_vars

\* the stream of a run whose window holds candles has yielded an Err item
C10_Witness ==
    /\ result = "transport_error"
    /\ pc = "terminated"
    /\ msg.frame = "error"
    /\ Len(raw_window) > 0

\* a payload the claim calls malformed: text that is not JSON, a kline
\* object with a field missing or of another type, or a number string that
\* does not parse
Malformed(m) ==
    /\ m.frame = "text"
    /\ \/ m.json = "invalid"
       \/ /\ m.json = "kline"
          /\ \/ m.x \in {"missing", "nonbool"}
             \/ m.fields \in {"missing", "wrongtype"}
             \/ m.nums = "bad"

\* C11: once a malformed payload has been read the run has ended with an
\* error; the loop never goes on after one.
C11_MalformedTerminal ==
    Malformed(msg) => pc = "terminated" /\ result \in {"parse_error", "panic"}

\* a closed kline event with a wrongly typed field was read and the loop
\* waits for the next message
C11_Witness ==
    /\ pc = "streaming"
    /\ result = "running"
    /\ msg.json = "kline" /\ msg.x = "true" /\ msg.fields = "wrongtype"
    /\ Len(raw_window) > 0

\* C12: a run started with an unsupported stream type only ends, with exit
\* status 1: it never loads, seeds, computes, connects or reads, and no file
\* is written.
C12_UnsupportedFailsFast ==
    stream_type \notin {"trade", "m5", "m15"} =>
        /\ pc \in {"main", "terminated"}
        /\ pc = "terminated" => result = "exit1"
        /\ raw_window = <<>>
        /\ features_df = <<>>
        /\ ncompute = 0
        /\ handles = <<>>
        /\ msg = NoMessage
        /\ \A p \in Paths : fs[p] = Absent

\* the run with the unsupported stream type has ended
C12_Witness ==
    /\ stream_type \notin {"trade", "m5", "m15"}
    /\ pc = "terminated"
    /\ result = "exit1"

\* C13: when the first message is read the run is in its loop, exactly one
\* feature computation has been made, the feature table is a table of the
\* feature slice of the seeded window, and both feature files hold it.
C13_BootstrapBeforeRead ==
    [][(msg = NoMessage /\ msg' # NoMessage) =>
        /\ pc = "streaming"
        /\ ncompute = 1
        /\ features_df \in compute_features(feature_slice(raw_window))
        /\ fs[feature_parquet(stream_type)] =
                save_dataframe_parquet(features_df)
        /\ fs[feature_csv(stream_type)] =
                save_dataframe_csv_to_path(features_df)]_vars

\* the first message of a run with a seeded window has been read
C13_Witness ==
    /\ msg # NoMessage
    /\ ncompute = 1
    /\ pc = "streaming"
    /\ Len(raw_window) > 0

\* C14: the step that consumes a closed candle pushes it first, computes the
\* feature table from the slice of the window that holds it, and only then
\* spawns the writes, all pending, with that table and that window; when
\* the computation fails nothing is spawned; and writes are spawned by no
\* other step.
C14_ConsumeOrder ==
    [][/\ (Consumes /\ pc' = "joining") =>
            /\ raw_window'[Len(raw_window')] = handles'[4].arg
            /\ features_df' \in compute_features(feature_slice(raw_window'))
            /\ \E r \in 1..Len(features_df') :
                features_df'[r].open_time = handles'[4].arg.open_time
            /\ \A i \in 1..3 : handles'[i].arg = features_df'
            /\ handles'[5].arg = raw_window'
            /\ \A i \in 1..Len(handles') : handles'[i].status = "pending"
            /\ fs' = fs
       /\ (Consumes /\ pc' # "joining") => handles' = <<>> /\ fs' = fs
       /\ Len(handles') > Len(handles) => Consumes]_vars

\* the writes of a closed candle pushed onto a full window have just been
\* spawned
C14_Witness ==
    /\ pc = "joining"
    /\ Len(handles) = 5
    /\ \A i \in 1..Len(handles) : handles[i].status = "pending"
    /\ Len(raw_window) = HISTORICAL_COUNT
    /\ handles[1].arg = features_df
    /\ Len(features_df) = HISTORICAL_COUNT

\* C15: a message is read only by the loop at rest; whenever the loop is at
\* rest the feature table is a table of the current window, so the push and
\* the recompute of the last message are complete; the window changes only
\* by the seeding and by one push of the candle of the message being
\* handled; and every step makes at most one feature computation.
C15_OneAtATime ==
    [][/\ msg' # msg => pc = "streaming"
       /\ pc = "streaming" =>
            features_df \in compute_features(feature_slice(raw_window))
       /\ raw_window' # raw_window =>
            \/ pc = "load"
            \/ /\ Consumes
               /\ pc' = "joining" =>
                    raw_window' = push_evict(raw_window, handles'[4].arg)
       /\ ncompute' # ncompute =>
            ncompute' = ncompute + 1 /\ pc \in {"run", "streaming"}]_vars

\* a second closed candle has been consumed after the first
C15_Witness ==
    /\ ncompute = 3
    /\ pc = "joining"
    /\ msg.x = "true"
    /\ Len(raw_window) = HISTORICAL_COUNT

\* C16 as stated: once the writes of a closed candle are dispatched the loop
\* can read the next message, whether or not they have finished.
C16_FireAndForget ==
    (pc = "joining" /\ ncompute <= MaxCandles) => ENABLED ReadMessage

\* C16 amended: while a write of a closed candle is pending the loop stays
\* where it is, with the same message and the same window; and the writes
\* in flight are always the five of one event, the last one consumed.
C16_WritesAwaited ==
    [][/\ (pc = "joining" /\ ~Finished(handles)) =>
            /\ pc' = "joining"
            /\ msg' = msg
            /\ raw_window' = raw_window
            /\ ncompute' = ncompute
       /\ handles' # <<>> =>
            /\ Len(handles') = 5
            /\ \A i \in 1..3 : handles'[i].arg = features_df'
            /\ handles'[4].arg = raw_window'[Len(raw_window')]
            /\ handles'[5].arg = raw_window']_vars

\* the writes of a second closed candle are in flight, some finished and
\* some not
C16_Witness ==
    /\ pc = "joining"
    /\ ncompute = 3
    /\ handles[1].status = "ok"
    /\ handles[5].status = "pending"

\* C17: the run ends only from a state in which no spawned write is pending,
\* and no write is pending once it has ended.
C17_NoPendingAtExit ==
    [][pc' = "terminated" => Finished(handles) /\ Finished(handles')]_vars

\* the run has ended, by the end of the stream or by a fatal error, after it
\* had consumed a closed candle and its raw-candle append had been written
C17_Witness ==
    /\ pc = "terminated"
    /\ result \in {"ok", "transport_error", "parse_error", "panic"}
    /\ ncompute >= 2
    /\ fs[csv_file(stream_type)].exists
    /\ \E i \in 1..Len(fs[csv_file(stream_type)].lines) :
        fs[csv_file(stream_type)].lines[i] =
            KlineCsvLine(raw_window[Len(raw_window)])

\* C18: once a closed candle has been consumed, the feature table of the
\* current event is exactly what compute_features returns for the current
\* feature window alone: nothing of the earlier tables or of the evicted
\* candles is carried over.
C18_RecomputedFromScratch ==
    (pc \in {"streaming", "joining"} /\ ncompute >= 2) =>
        compute_features(feature_slice(raw_window)) = {features_df}

\* two candles consumed, the second one after an eviction, and the table
\* holds the rows of the window that is left
C18_Witness ==
    /\ pc = "joining"
    /\ ncompute = 3
    /\ Len(raw_window) = HISTORICAL_COUNT
    /\ Len(features_df) = FEATURE_WINDOW_SIZE
    /\ \A i \in 1..Len(raw_window) :
           raw_window[i].open_time > interval_ms(stream_type)

----------------------------------------------------------------------------
(* compute_features as a function of its argument: every sequence of up to *)
(* MaxRows candles, sorted or not, with or without equal open times, whose *)
(* open times are spread over several 1h and 4h windows                    *)

FeatureTimes == {h * H1 : h \in {0, 1, 2, 4, 8}}

FeatureCloses == {7, 9}

FeatureInputs ==
    SeqsUpTo({Kline(t, c, "m15") : t \in FeatureTimes, c \in FeatureCloses},
             MaxRows)

FeaturesInit ==
    /\ pc = "features"
    /\ result = "running"
    /\ stream_type = "m15"
    /\ raw_window \in FeatureInputs
    /\ features_df = <<>>
    /\ ncompute = 0
    /\ handles = <<>>
    /\ msg = NoMessage
    /\ sent = ""
    /\ fs = [p \in Paths |-> Absent]
    /\ unwritable = {}
    /\ sort_ties \in TieOrders
    /\ ema_spans = SourceSpans
    /\ fetch = NoFetch
    /\ feature_window = <<>>

\* one call compute_features(&raw_window)
ComputeFeatures ==
    /\ pc = "features"
    /\ ncompute < MaxCalls
    /\ features_df' \in compute_features(raw_window)
    /\ ncompute' = ncompute + 1
    /\ UNCHANGED <<pc, result, stream_type, raw_window, handles, msg, sent,
                   fs, unwritable, sort_ties,
                   ema_spans, fetch,
                   feature_window>>

FeaturesNext == ComputeFeatures

FeaturesSpec == FeaturesInit /\ [][FeaturesNext]_vars

C20_RowCountPreserved ==
    (pc = "features" /\ ncompute >= 1) =>
        /\ Len(features_df) = Len(raw_window)
        /\ \A k \in 1..Len(raw_window) :
               Cardinality({i \in 1..Len(features_df) :
                               features_df[i].index = k}) = 1

\* a table with rows the 1h and 4h merges match (their datetime is the label
\* of a resampled row), among them two rows of one datetime, and a row the
\* merges do not match
C20_Witness ==
    LET h1 == group_by_dynamic(features_df, H1)
        h4 == group_by_dynamic(features_df, H4)
        labels(r) == {r[i].datetime : i \in 1..Len(r)}
    IN  /\ pc = "features"
        /\ ncompute >= 1
        /\ Len(features_df) = 3
        /\ features_df[1].datetime = features_df[2].datetime
        /\ features_df[1].datetime \in labels(h1) \cap labels(h4)
        /\ features_df[3].datetime \notin labels(h1) \cup labels(h4)

----------------------------------------------------------------------------
(* compute_features with the spans scaled down, so that a handful of        *)
(* candles gets a resampled series past min_periods = span                  *)

ScaledSpans == {[fast |-> 1, slow |-> 2], [fast |-> 2, slow |-> 3]}

ScaledInit ==
    /\ pc = "features"
    /\ result = "running"
    /\ stream_type = "m15"
    /\ raw_window \in FeatureInputs
    /\ features_df = <<>>
    /\ ncompute = 0
    /\ handles = <<>>
    /\ msg = NoMessage
    /\ sent = ""
    /\ fs = [p \in Paths |-> Absent]
    /\ unwritable = {}
    /\ sort_ties \in TieOrders
    /\ ema_spans \in ScaledSpans
    /\ fetch = NoFetch
    /\ feature_window = <<>>

ScaledSpec == ScaledInit /\ [][FeaturesNext]_vars

\* the candles of the argument that open at or before t, in argument order
OpenedBy(t) == SelectSeq(raw_window, LAMBDA k : k.open_time <= t)

\* the values a column takes at datetime t in the tables of klines
ValuesAt(klines, col, t) ==
    UNION {{df[i][col] : i \in {j \in 1..Len(df) : df[j].datetime = t}}
              : df \in compute_features(klines)}

CoarseColumns == {"ema50_h1", "ema200_h1", "ema50_h4", "ema200_h4"}

\* C21: a coarser-timeframe value carried by a native row depends only on
\* candles that open at or before that row: it is the value the row gets
\* when the features are computed on those candles alone (no look-ahead).
C21_NoLookAhead ==
    (pc = "features" /\ ncompute >= 1) =>
        \A i \in 1..Len(features_df) : \A col \in CoarseColumns :
            features_df[i][col] # Null =>
                features_df[i][col] \in
                    ValuesAt(OpenedBy(features_df[i].open_time), col,
                             features_df[i].datetime)

\* a native row that carries a 1h value, followed by a later candle
C21_Witness ==
    /\ pc = "features"
    /\ ncompute >= 1
    /\ Len(features_df) >= 2
    /\ features_df[1].ema50_h1 # Null
    /\ features_df[2].datetime > features_df[1].datetime

\* the resampled series merged into a coarser-timeframe column of the table
Derived(col) ==
    compute_resampled_ema(
        features_df,
        IF col \in {"ema50_h1", "ema200_h1"} THEN H1 ELSE H4,
        IF col \in {"ema50_h1", "ema50_h4"} THEN ema_spans.fast
                                             ELSE ema_spans.slow)

\* the timestamps of the resampled series that carry a value
Completed(col) ==
    {Derived(col)[k].datetime :
        k \in {j \in 1..Len(Derived(col)) : Derived(col)[j].value # Null}}

\* C22: a native row whose timestamp precedes the first timestamp of the
\* resampled series that carries a value has a null in the coarser-timeframe
\* column, and every native row at or after that timestamp has a value.
C22_NullUntilFirstDerived ==
    (pc = "features" /\ ncompute >= 1) =>
        \A col \in CoarseColumns : \A i \in 1..Len(features_df) :
            features_df[i][col] # Null <=>
                \E t \in Completed(col) : t <= features_df[i].datetime

\* three rows of the slow 1h column: a null before the first value of the
\* series, the row the value is joined to, and a later row that no resampled
\* timestamp matches and the forward fill reaches
C22_Witness ==
    /\ pc = "features"
    /\ ncompute >= 1
    /\ Len(features_df) = 3
    /\ features_df[1].ema200_h1 = Null
    /\ features_df[2].ema200_h1 # Null
    /\ features_df[3].ema200_h1 # Null
    /\ features_df[2].datetime \in Completed("ema200_h1")
    /\ features_df[3].datetime \notin Completed("ema200_h1")
    /\ features_df[1].datetime < features_df[2].datetime

\* a cell that holds the number n
Holds(cell, n) == ~cell.null /\ cell.num = n * cell.den

\* C23: on a constant price series the EMA of the closes is defined at every
\* position, the first span - 1 positions included, and equals the price.
C23_ConstantSeries ==
    (/\ pc = "features"
     /\ ncompute >= 1
     /\ \A i \in 1..Len(features_df) :
            features_df[i].close = features_df[1].close) =>
        \A i \in 1..Len(features_df) :
            /\ Holds(features_df[i].ema50_m15, features_df[i].close)
            /\ Holds(features_df[i].ema200_m15, features_df[i].close)

\* the features of three candles of one close
C23_Witness ==
    /\ pc = "features"
    /\ ncompute >= 1
    /\ Len(features_df) = 3
    /\ \A i \in 1..3 : features_df[i].close = 7
    /\ features_df[1].datetime < features_df[2].datetime
    /\ features_df[2].datetime < features_df[3].datetime

----------------------------------------------------------------------------
(* features/pivots.rs *)

\* an f64 price: a number or NaN
NaN == [nan |-> TRUE, v |-> 0]

Price(n) == [nan |-> FALSE, v |-> n]

\* the closures handed to consecutive_strength_vec: a < b and a > b on f64
Lower(a, b) == ~a.nan /\ ~b.nan /\ a.v < b.v

Higher(a, b) == ~a.nan /\ ~b.nan /\ a.v > b.v

\* a >= b, the condition of the non-strict mutant below
HigherOrEqual(a, b) == ~a.nan /\ ~b.nan /\ a.v >= b.v

\* the closure named cond applied to a neighbour and the current price
Call(cond, a, b) ==
    CASE cond = "Lower" -> Lower(a, b)
      [] cond = "Higher" -> Higher(a, b)
      [] cond = "HigherOrEqual" -> HigherOrEqual(a, b)

Min(a, b) == IF a <= b THEN a ELSE b

\* mutant: the counts run to the ends of the series, whatever the window
consecutive_strength_vec_nowindow(prices, left_cond, right_cond, window) ==
    LET n == Len(prices)
        left_count(i) ==
            SetMax({c \in 0..(i - 1) :
                       \A d \in 1..c : /\ ~prices[i - d].nan
                                       /\ Call(left_cond, prices[i - d], prices[i])})
        right_count(i) ==
            SetMax({c \in 0..(n - i) :
                       \A d \in 1..c : /\ ~prices[i + d].nan
                                       /\ Call(right_cond, prices[i + d], prices[i])})
    IN  [left |-> [i \in 1..n |-> IF prices[i].nan THEN 0 ELSE left_count(i)],
         right |-> [i \in 1..n |-> IF prices[i].nan THEN 0 ELSE right_count(i)]]

\* mutant: a missing price is read as 0.0 and compared like any other
consecutive_strength_vec_nanzero(prices, left_cond, right_cond, window) ==
    LET n == Len(prices)
        cmp(cond, a, b) == IF cond = "Lower" THEN a.v < b.v ELSE a.v > b.v
        left_count(i) ==
            SetMax({c \in 0..Min(i - 1, window) :
                       \A d \in 1..c : cmp(left_cond, prices[i - d], prices[i])})
        right_count(i) ==
            SetMax({c \in 0..Min(n - i, window) :
                       \A d \in 1..c : cmp(right_cond, prices[i + d], prices[i])})
    IN  [left |-> [i \in 1..n |-> left_count(i)],
         right |-> [i \in 1..n |-> right_count(i)]]

\* consecutive_strength_vec: for every position the number of consecutive
\* neighbours to the left, and to the right, that are not NaN and satisfy
\* the condition, at most window of them; 0 and 0 at a NaN
consecutive_strength_vec(prices, left_cond, right_cond, window) ==
    LET n == Len(prices)
        left_count(i) ==
            SetMax({c \in 0..Min(i - 1, window) :
                       \A d \in 1..c : /\ ~prices[i - d].nan
                                       /\ Call(left_cond, prices[i - d], prices[i])})
        right_count(i) ==
            SetMax({c \in 0..Min(n - i, window) :
                       \A d \in 1..c : /\ ~prices[i + d].nan
                                       /\ Call(right_cond, prices[i + d], prices[i])})
    IN  [left |-> [i \in 1..n |-> IF prices[i].nan THEN 0 ELSE left_count(i)],
         right |-> [i \in 1..n |-> IF prices[i].nan THEN 0 ELSE right_count(i)]]

\* mutant: a low counts a neighbour that is equal to it
add_pivot_features_nonstrict(df) ==
    LET high_prices == [i \in 1..Len(df) |-> df[i].high]
        low_prices == [i \in 1..Len(df) |-> df[i].low]
        highs == consecutive_strength_vec(high_prices, "Lower", "Lower",
                                          PIVOT_WINDOW)
        lows == consecutive_strength_vec(low_prices, "HigherOrEqual",
                                         "HigherOrEqual", PIVOT_WINDOW)
    IN  [i \in 1..Len(df) |->
            [index |-> df[i].index, high |-> df[i].high, low |-> df[i].low,
             pivot_high_left |-> highs.left[i],
             pivot_high_right |-> highs.right[i],
             pivot_low_left |-> lows.left[i],
             pivot_low_right |-> lows.right[i]]]

\* add_pivot_features: the left and right strengths of the highs and of the
\* lows. The source also adds pivot_high_max and pivot_low_max from the names
\* high_max and low_max, which it never defines; these two columns are left
\* out.
add_pivot_features(df) ==
    LET high_prices == [i \in 1..Len(df) |-> df[i].high]
        low_prices == [i \in 1..Len(df) |-> df[i].low]
        highs == consecutive_strength_vec(high_prices, "Lower", "Lower",
                                          PIVOT_WINDOW)
        lows == consecutive_strength_vec(low_prices, "Higher", "Higher",
                                         PIVOT_WINDOW)
    IN  [i \in 1..Len(df) |->
            [index |-> df[i].index, high |-> df[i].high, low |-> df[i].low,
             pivot_high_left |-> highs.left[i],
             pivot_high_right |-> highs.right[i],
             pivot_low_left |-> lows.left[i],
             pivot_low_right |-> lows.right[i]]]

----------------------------------------------------------------------------
(* add_pivot_features as a function of the high and low columns            *)

PivotPrices == {Price(1), Price(2), Price(3), NaN}

PivotFrames ==
    {[i \in 1..Len(s) |-> [index |-> i, high |-> s[i][1], low |-> s[i][2]]]
        : s \in SeqsUpTo(PivotPrices \X PivotPrices, MaxRows)}

PivotInit ==
    /\ pc = "pivots"
    /\ result = "running"
    /\ stream_type = "m15"
    /\ raw_window \in PivotFrames
    /\ features_df = <<>>
    /\ ncompute = 0
    /\ handles = <<>>
    /\ msg = NoMessage
    /\ sent = ""
    /\ fs = [p \in Paths |-> Absent]
    /\ unwritable = {}
    /\ sort_ties = "keep"
    /\ ema_spans = SourceSpans
    /\ fetch = NoFetch
    /\ feature_window = <<>>

\* one call add_pivot_features(df) on the table held in raw_window
AddPivotFeatures ==
    /\ pc = "pivots"
    /\ ncompute = 0
    /\ features_df' = add_pivot_features(raw_window)
    /\ ncompute' = 1
    /\ UNCHANGED <<pc, result, stream_type, raw_window, handles, msg, sent,
                   fs, unwritable, sort_ties, ema_spans, fetch,
                   feature_window>>

PivotNext == AddPivotFeatures

PivotSpec == PivotInit /\ [][PivotNext]_vars

Negated(prices) ==
    [i \in 1..Len(prices) |-> [nan |-> prices[i].nan, v |-> 0 - prices[i].v]]

\* C24: the pivot-high left and right strengths of the negated low series
\* are the pivot-low left and right strengths of the low series, position by
\* position.
C24_NegationSymmetry ==
    (pc = "pivots" /\ ncompute = 1) =>
        LET lows == [i \in 1..Len(raw_window) |-> raw_window[i].low]
            mirrored == consecutive_strength_vec(Negated(lows), "Lower",
                                                 "Lower", PIVOT_WINDOW)
        IN  \A i \in 1..Len(features_df) :
                /\ features_df[i].pivot_low_left = mirrored.left[i]
                /\ features_df[i].pivot_low_right = mirrored.right[i]

\* a low with a higher low on its left, and on its right an equal low, which
\* ends the count
C24_Witness ==
    /\ pc = "pivots"
    /\ ncompute = 1
    /\ Len(features_df) = 3
    /\ features_df[2].pivot_low_left = 1
    /\ features_df[2].pivot_low_right = 0
    /\ features_df[3].low = features_df[2].low
    /\ ~features_df[2].low.nan

\* the append-only log files of a run
LogPaths == {streaming_csv_file(stream_type), csv_file(stream_type)} \ {""}

Headers(file) ==
    {i \in 1..Len(file.lines) : file.lines[i].kind = "header"}

Snapshot(p) ==
    IF p = cache_file(stream_type) THEN save_klines_to_parquet(raw_window)
    ELSE IF p = feature_parquet(stream_type)
    THEN save_dataframe_parquet(features_df)
    ELSE save_dataframe_csv_to_path(features_df)

SnapshotPaths ==
    {cache_file(stream_type), feature_parquet(stream_type),
     feature_csv(stream_type)} \ {""}

\* C26: when all writes of a closed-candle event have succeeded, the raw
\* snapshot file holds exactly the raw window of after the event's push and
\* eviction and the feature snapshot files hold exactly the event's feature
\* table; and whenever a write changes a snapshot file, the file becomes the
\* snapshot of the current event, never one of an earlier event.
C26_SnapshotsCurrent ==
    [][/\ (/\ pc' = "joining"
           /\ \A i \in 1..Len(handles') : handles'[i].status = "ok") =>
              \A p \in SnapshotPaths : fs'[p] = Snapshot(p)'
       /\ \A p \in SnapshotPaths :
              (pc = "joining" /\ fs'[p] # fs[p]) => fs'[p] = Snapshot(p)']_vars

\* the writes of the second closed candle have all succeeded, over the
\* snapshots of the first, and the window has evicted
C26_Witness ==
    /\ pc = "joining"
    /\ ncompute = 3
    /\ Len(handles) = 5
    /\ \A i \in 1..Len(handles) : handles[i].status = "ok"
    /\ Len(raw_window) = HISTORICAL_COUNT
    /\ fs[cache_file(stream_type)] = save_klines_to_parquet(raw_window)

\* C27: the candles fetch_latest_klines returns at the bootstrap of a run
\* without a cache are exactly HISTORICAL_COUNT candles, consecutive and
\* ascending (the tail of the fetched range).
C27_ExactlyCount ==
    [][(/\ pc = "load"
        /\ pc' = "run"
        /\ ~fs[cache_file(stream_type)].exists) =>
            /\ Len(raw_window') = HISTORICAL_COUNT
            /\ Consecutive(raw_window', stream_type)]_vars

\* a bootstrap from the exchange that did return HISTORICAL_COUNT candles,
\* the latest of the range
C27_Witness ==
    /\ pc = "run"
    /\ Len(raw_window) = HISTORICAL_COUNT
    /\ raw_window[Len(raw_window)].open_time = MaxSlot * interval_ms(stream_type)
    /\ fs[cache_file(stream_type)] = save_klines_to_parquet(raw_window)

----------------------------------------------------------------------------
(* binance_client.rs: fetch_klines_range, page by page *)

\* the candle slots of the exchange: enough for two full pages, a third
\* page and a hole
MaxFetchSlot == 2 * limit + 2

\* what the exchange stores: a candle for some of the slots (its history can
\* have holes), with open_time a multiple of the interval
Stores ==
    SUBSET {Kline(k * interval_ms("m5"), 7, "m5") : k \in 1..MaxFetchSlot}

StartTimes == {0, interval_ms("m5"), interval_ms("m5") + 1}

EndTimes ==
    {(MaxFetchSlot - 1) * interval_ms("m5"), MaxFetchSlot * interval_ms("m5"),
     MaxFetchSlot * interval_ms("m5") + 1}

RECURSIVE Ascending(_)
Ascending(S) ==
    IF S = {} THEN <<>>
    ELSE LET first == CHOOSE x \in S : \A y \in S : x.open_time <= y.open_time
         IN  <<first>> \o Ascending(S \ {first})

\* the answer to /api/v3/klines?startTime=from&endTime=to&limit=limit: the
\* first limit candles that open in [from, to], ascending
Page(store, from, to) ==
    LET inrange == Ascending({k \in store : /\ from <= k.open_time
                                            /\ k.open_time <= to})
    IN  SubSeq(inrange, 1, Min(Len(inrange), limit))

FetchInit ==
    /\ pc = "fetching"
    /\ result = "running"
    /\ stream_type = "m5"
    /\ raw_window = <<>>
    /\ features_df = <<>>
    /\ ncompute = 0
    /\ handles = <<>>
    /\ msg = NoMessage
    /\ sent = ""
    /\ fs = [p \in Paths |-> Absent]
    /\ unwritable = {}
    /\ sort_ties = "keep"
    /\ ema_spans = SourceSpans
    /\ feature_window = <<>>
    /\ \E store \in Stores, start_time \in StartTimes, end_time \in EndTimes :
           fetch = [store |-> store, end_time |-> end_time,
                    current_start |-> start_time, all |-> <<>>,
                    pages |-> <<>>]

\* mutant: the next page starts at the open time of the last candle
FetchPage_overlap ==
    /\ pc = "fetching"
    /\ \E send_ok \in BOOLEAN :
        LET klines == Page(fetch.store, fetch.current_start, fetch.end_time)
            next == klines[Len(klines)].open_time
        IN  IF ~send_ok
            THEN Terminate("fetch_error") /\ fetch' = fetch
            ELSE /\ result' = result
                 /\ IF klines = <<>>
                    THEN /\ pc' = "fetched"
                         /\ fetch' = [fetch EXCEPT !.pages = Append(@, klines)]
                    ELSE /\ fetch' = [fetch EXCEPT
                                 !.all = @ \o klines,
                                 !.pages = Append(@, klines),
                                 !.current_start =
                                     IF Len(klines) < limit THEN @ ELSE next]
                         /\ pc' = IF \/ Len(klines) < limit
                                     \/ next >= fetch.end_time
                                  THEN "fetched" ELSE "fetching"
    /\ UNCHANGED <<stream_type, raw_window, features_df, ncompute, handles,
                   msg, sent, fs, unwritable, sort_ties, ema_spans,
                   feature_window>>

\* mutant: the next request starts where the last one did
FetchPage_samestart ==
    /\ pc = "fetching"
    /\ \E send_ok \in BOOLEAN :
        LET klines == Page(fetch.store, fetch.current_start, fetch.end_time)
            next == klines[Len(klines)].close_time + 1
        IN  IF ~send_ok
            THEN Terminate("fetch_error") /\ fetch' = fetch
            ELSE /\ result' = result
                 /\ IF klines = <<>>
                    THEN /\ pc' = "fetched"
                         /\ fetch' = [fetch EXCEPT !.pages = Append(@, klines)]
                    ELSE /\ fetch' = [fetch EXCEPT
                                 !.all = @ \o klines,
                                 !.pages = Append(@, klines)]
                         /\ pc' = IF \/ Len(klines) < limit
                                     \/ next >= fetch.end_time
                                  THEN "fetched" ELSE "fetching"
    /\ UNCHANGED <<stream_type, raw_window, features_df, ncompute, handles,
                   msg, sent, fs, unwritable, sort_ties, ema_spans,
                   feature_window>>

\* one iteration of the loop of fetch_klines_range: the request (`?` on its
\* failure), the stop on an empty page, all.extend(klines), the stop on a
\* short page, current_start = last.close_time + 1, the stop at end_time
FetchPage ==
    /\ pc = "fetching"
    /\ \E send_ok \in BOOLEAN :
        LET klines == Page(fetch.store, fetch.current_start, fetch.end_time)
            next == klines[Len(klines)].close_time + 1
        IN  IF ~send_ok
            THEN Terminate("fetch_error") /\ fetch' = fetch
            ELSE /\ result' = result
                 /\ IF klines = <<>>
                    THEN /\ pc' = "fetched"
                         /\ fetch' = [fetch EXCEPT !.pages = Append(@, klines)]
                    ELSE /\ fetch' = [fetch EXCEPT
                                 !.all = @ \o klines,
                                 !.pages = Append(@, klines),
                                 !.current_start =
                                     IF Len(klines) < limit THEN @ ELSE next]
                         /\ pc' = IF \/ Len(klines) < limit
                                     \/ next >= fetch.end_time
                                  THEN "fetched" ELSE "fetching"
    /\ UNCHANGED <<stream_type, raw_window, features_df, ncompute, handles,
                   msg, sent, fs, unwritable, sort_ties, ema_spans,
                   feature_window>>

FetchNext == FetchPage

FetchSpec == FetchInit /\ [][FetchNext]_vars

RECURSIVE Concat(_)
Concat(seqs) == IF seqs = <<>> THEN <<>> ELSE Head(seqs) \o Concat(Tail(seqs))

\* C28: the candles collected by fetch_klines_range are the pages in request
\* order, one after the other; they are strictly ascending by open_time, so
\* no candle is there twice, and between two neighbours of the result the
\* exchange holds no candle, so none is skipped from one page to the next.
C28_PagesInOrder ==
    (pc \in {"fetching", "fetched"}) =>
        /\ fetch.all = Concat(fetch.pages)
        /\ \A i \in 1..Len(fetch.all) - 1 :
              /\ fetch.all[i].open_time < fetch.all[i + 1].open_time
              /\ ~\E k \in fetch.store :
                     /\ fetch.all[i].open_time < k.open_time
                     /\ k.open_time < fetch.all[i + 1].open_time

\* two full pages and a third one, fetched from a history with a hole
C28_Witness ==
    /\ pc = "fetched"
    /\ Len(fetch.pages) = 3
    /\ Len(fetch.pages[1]) = limit
    /\ Len(fetch.pages[2]) = limit
    /\ Len(fetch.pages[3]) >= 1
    /\ \E i \in 1..Len(fetch.all) - 1 :
           fetch.all[i + 1].open_time > fetch.all[i].close_time + 1

\* a trade tick, a Ping frame, or a frame that is neither text nor Ping
Quiet(m) ==
    \/ m.frame \in {"ping", "other"}
    \/ m.frame = "text" /\ m.json = "trade"

C30_SuffixOfRawWindow ==
    (pc \in {"connect", "streaming", "joining"}) =>
        LET n == Len(raw_window)
            m == Min(n, FEATURE_WINDOW_SIZE)
        IN  /\ Len(features_df) = m
            /\ \A i \in 1..Len(features_df) :
                  LET k == features_df[i].index
                  IN  /\ k \in 1..m
                      /\ features_df[i].open_time = raw_window[n - m + k].open_time
                      /\ features_df[i].close = raw_window[n - m + k].close
                      /\ features_df[i].close_time
                             = raw_window[n - m + k].close_time
            /\ \A i, j \in 1..Len(features_df) :
                  features_df[i].index = features_df[j].index => i = j

\* after a closed candle on a full window that is not in time order, so that
\* the rows of the table are not in the order of their numbers
C30_Witness ==
    /\ pc = "joining"
    /\ Len(raw_window) = FEATURE_WINDOW_SIZE
    /\ \E i \in 1..Len(features_df) : features_df[i].index # i

----------------------------------------------------------------------------
(* live_stream_20260223183456.rs: the raw window and a separate feature    *)
(* window of its own capacity, each with its own push and eviction         *)

\* the candles of the two windows: told apart by open_time and close
WindowKlines ==
    {Kline(t, c, "m5") : t \in OpenTimes("m5"), c \in FeatureCloses}

\* let mut feature_window = raw_window.iter().rev().take(F).rev().collect(),
\* and the whole raw window when it holds fewer than F candles
SeedFeatureWindow(window) ==
    LET n == Len(window)
        taken == SubSeq(window, n - Min(n, FEATURE_CAPACITY) + 1, n)
    IN  IF Len(taken) < FEATURE_CAPACITY /\ n < FEATURE_CAPACITY
        THEN window
        ELSE taken

WindowInit ==
    /\ pc = "windows"
    /\ result = "running"
    /\ stream_type = "m5"
    /\ raw_window \in SeqsUpTo(WindowKlines, HISTORICAL_COUNT)
    /\ feature_window = SeedFeatureWindow(raw_window)
    /\ features_df = <<>>
    /\ ncompute = 0
    /\ handles = <<>>
    /\ msg = NoMessage
    /\ sent = ""
    /\ fs = [p \in Paths |-> Absent]
    /\ unwritable = {}
    /\ sort_ties = "keep"
    /\ ema_spans = SourceSpans
    /\ fetch = NoFetch

\* mutant: the feature window is pushed to and never evicted
PushBoth_keep ==
    /\ pc = "windows"
    /\ ncompute <= MaxCandles
    /\ \E new_kline \in WindowKlines :
        LET raw == push_evict(raw_window, new_kline)
        IN  /\ raw_window' = raw
            /\ feature_window' = Append(feature_window, raw[Len(raw)])
    /\ ncompute' = ncompute + 1
    /\ UNCHANGED <<pc, result, stream_type, features_df, handles, msg, sent,
                   fs, unwritable, sort_ties, ema_spans, fetch>>

\* a closed candle: raw_window.push_back, pop_front above HISTORICAL_COUNT;
\* feature_window.push_back(raw_window.back()), pop_front above its capacity
PushBoth ==
    /\ pc = "windows"
    /\ ncompute <= MaxCandles
    /\ \E new_kline \in WindowKlines :
        LET raw == push_evict(raw_window, new_kline)
            pushed == Append(feature_window, raw[Len(raw)])
        IN  /\ raw_window' = raw
            /\ feature_window' = IF Len(pushed) > FEATURE_CAPACITY
                                 THEN Tail(pushed) ELSE pushed
    /\ ncompute' = ncompute + 1
    /\ UNCHANGED <<pc, result, stream_type, features_df, handles, msg, sent,
                   fs, unwritable, sort_ties, ema_spans, fetch>>

WindowNext == PushBoth

WindowSpec == WindowInit /\ [][WindowNext]_vars

Every(col) == IF col \in {"ema50_h1", "ema200_h1"} THEN H1 ELSE H4

\* the boundary timestamps of the buckets of a resampled series
Boundaries(col) ==
    {Derived(col)[k].datetime : k \in 1..Len(Derived(col))}

\* C32: the boundary timestamp of every resampling bucket is an absolute
\* multiple of its timeframe, whatever the first candle of the window is.
C32_AbsoluteBuckets ==
    (pc = "features" /\ ncompute >= 1) =>
        \A col \in CoarseColumns :
            \A t \in Boundaries(col) : t % Every(col) = 0

\* a window whose first candle opens at 1h: it has a 4h bucket, and its 1h
\* buckets lie on the hours
C32_Witness ==
    /\ pc = "features"
    /\ ncompute >= 1
    /\ Len(features_df) >= 2
    /\ features_df[1].datetime = H1
    /\ Boundaries("ema50_h4") # {}
    /\ \A t \in Boundaries("ema50_h1") : t % H1 = 0

\* the resampled closes behind a coarser-timeframe column of the table
Resampled(col) == group_by_dynamic(features_df, Every(col))

\* the rows of the table that open in [from, to)
OpenIn(from, to) ==
    {i \in 1..Len(features_df) : /\ from <= features_df[i].datetime
                                 /\ features_df[i].datetime < to}

\* C33: a resampled row with boundary timestamp L stands for a completed
\* bucket: the window holds a candle that opens at L + T or later, and the
\* row's close is the close of the last candle that opens in [L, L + T).
C33_OnlyCompletedBuckets ==
    (pc = "features" /\ ncompute >= 1) =>
        \A col \in CoarseColumns : \A k \in 1..Len(Resampled(col)) :
            LET L == Resampled(col)[k].datetime
                T == Every(col)
            IN  /\ \E i \in 1..Len(features_df) :
                       features_df[i].datetime >= L + T
                /\ OpenIn(L, L + T) # {}
                /\ Resampled(col)[k].close
                       = features_df[SetMax(OpenIn(L, L + T))].close

\* a window with two 1h rows and a 4h row in its resampled series
C33_Witness ==
    /\ pc = "features"
    /\ ncompute >= 1
    /\ Len(Resampled("ema50_h1")) = 2
    /\ Len(Resampled("ema50_h4")) = 1

\* the span behind an EMA column
SpanOf(col) ==
    IF col \in {"ema50_m15", "ema50_h1", "ema50_h4"} THEN ema_spans.fast
                                                      ELSE ema_spans.slow

\* cell = alpha * x + (1 - alpha) * prev with alpha = 2 / (span + 1),
\* multiplied out over the denominators
Recurrence(prev, cell, x, span) ==
    /\ ~prev.null
    /\ ~cell.null
    /\ (span + 1) * cell.num * prev.den
           = 2 * x * cell.den * prev.den + (span - 1) * prev.num * cell.den

\* the close series and the EMA series of a column: the table's own rows for
\* the base timeframe, the resampled rows for the coarser ones
EmaInput(col) ==
    IF col \in CoarseColumns
    THEN [k \in 1..Len(Resampled(col)) |-> Resampled(col)[k].close]
    ELSE [i \in 1..Len(features_df) |-> features_df[i].close]

EmaOutput(col) ==
    IF col \in CoarseColumns
    THEN [k \in 1..Len(Derived(col)) |-> Derived(col)[k].value]
    ELSE [i \in 1..Len(features_df) |-> features_df[i][col]]

\* C34: every EMA series starts at the first close and follows the
\* recurrence ema[i] = alpha * close[i] + (1 - alpha) * ema[i-1] from
\* there on; a series of one close is that close.
C34_Recurrence ==
    (pc = "features" /\ ncompute >= 1) =>
        \A c \in 1..Len(EmaColumns) :
            LET col == EmaColumns[c]
                x == EmaInput(col)
                ema == EmaOutput(col)
            IN  \A i \in 1..Len(x) :
                    IF i = 1
                    THEN Holds(ema[1], x[1])
                    ELSE Recurrence(ema[i - 1], ema[i], x[i], SpanOf(col))

\* past min_periods: the second row of the slow base-timeframe EMA carries
\* a value, and it is the adjusted mean (3 * 9 + 7) / 4 of the closes 7, 9
C34_Witness ==
    /\ pc = "features"
    /\ ncompute >= 1
    /\ ema_spans.slow = 2
    /\ Len(features_df) = 2
    /\ features_df[1].close = 7
    /\ features_df[2].close = 9
    /\ features_df[1].ema200_m15 = Null
    /\ Holds(features_df[1].ema50_m15, 7)
    /\ ~features_df[2].ema200_m15.null
    /\ 4 * features_df[2].ema200_m15.num = 34 * features_df[2].ema200_m15.den

\* the walk from position j in steps of step (-1 to the left, 1 to the
\* right) that counts the neighbours of position i until one of them is
\* missing or fails the condition, the series ends or budget is used up
RECURSIVE Walk(_, _, _, _, _, _)
Walk(prices, i, j, step, cond, budget) ==
    IF \/ budget = 0
       \/ j < 1
       \/ j > Len(prices)
    THEN 0
    ELSE IF prices[j].nan \/ ~Call(cond, prices[j], prices[i])
         THEN 0
         ELSE 1 + Walk(prices, i, j + step, step, cond, budget - 1)

\* windows that bind on a series of a few prices, and the source's
Windows == {1, 2, PIVOT_WINDOW}

\* C35: left_strength[i] is the number of consecutive predecessors that
\* strictly satisfy the condition against price[i], up to the first one that
\* fails it (an equal price fails), and is at most min(i, W) in 0-based
\* positions; right_strength[i] is the same over the successors and is at
\* most min(n - 1 - i, W). The columns of the table are these counts for
\* W = PIVOT_WINDOW.
C35_ConsecutiveCounts ==
    (pc = "pivots" /\ ncompute = 1) =>
        LET n == Len(raw_window)
            highs == [i \in 1..n |-> raw_window[i].high]
            lows == [i \in 1..n |-> raw_window[i].low]
            counted(prices, cond, W) ==
                LET s == consecutive_strength_vec(prices, cond, cond, W)
                IN  \A i \in 1..n :
                        ~prices[i].nan =>
                            /\ s.left[i] = Walk(prices, i, i - 1, -1, cond, W)
                            /\ s.right[i] = Walk(prices, i, i + 1, 1, cond, W)
                            /\ s.left[i] <= Min(i - 1, W)
                            /\ s.right[i] <= Min(n - i, W)
                            /\ (i > 1 /\ prices[i - 1] = prices[i])
                                   => s.left[i] = 0
                            /\ (i < n /\ prices[i + 1] = prices[i])
                                   => s.right[i] = 0
        IN  /\ \A W \in Windows : /\ counted(highs, "Lower", W)
                                  /\ counted(lows, "Higher", W)
            /\ \A i \in 1..n :
                   ~highs[i].nan =>
                       /\ features_df[i].pivot_high_left
                              = Walk(highs, i, i - 1, -1, "Lower", PIVOT_WINDOW)
                       /\ features_df[i].pivot_high_right
                              = Walk(highs, i, i + 1, 1, "Lower", PIVOT_WINDOW)
            /\ \A i \in 1..n :
                   ~lows[i].nan =>
                       /\ features_df[i].pivot_low_left
                              = Walk(lows, i, i - 1, -1, "Higher", PIVOT_WINDOW)
                       /\ features_df[i].pivot_low_right
                              = Walk(lows, i, i + 1, 1, "Higher", PIVOT_WINDOW)

\* the highs 1, 2, 3: two lower predecessors of the last high, of which a
\* window of 1 counts one
C35_Witness ==
    /\ pc = "pivots"
    /\ ncompute = 1
    /\ Len(features_df) = 3
    /\ features_df[1].high = Price(1)
    /\ features_df[2].high = Price(2)
    /\ features_df[3].high = Price(3)
    /\ features_df[3].pivot_high_left = 2
    /\ features_df[1].pivot_high_right = 0
    /\ consecutive_strength_vec(<<Price(1), Price(2), Price(3)>>, "Lower",
                                "Lower", 1).left[3] = 1

\* C36: a position whose price is NaN has left and right strength 0, and no
\* count of another position reaches a NaN neighbour: every position within
\* the count holds a price.
C36_NaNEndsCounts ==
    (pc = "pivots" /\ ncompute = 1) =>
        \A i \in 1..Len(features_df) :
            LET r == features_df[i]
            IN  /\ r.high.nan => r.pivot_high_left = 0 /\ r.pivot_high_right = 0
                /\ r.low.nan => r.pivot_low_left = 0 /\ r.pivot_low_right = 0
                /\ \A d \in 1..r.pivot_high_left : ~features_df[i - d].high.nan
                /\ \A d \in 1..r.pivot_high_right : ~features_df[i + d].high.nan
                /\ \A d \in 1..r.pivot_low_left : ~features_df[i - d].low.nan
                /\ \A d \in 1..r.pivot_low_right : ~features_df[i + d].low.nan

\* the highs NaN, 2, 3: the last high counts its one lower predecessor and
\* stops at the NaN, which itself gets 0 and 0
C36_Witness ==
    /\ pc = "pivots"
    /\ ncompute = 1
    /\ Len(features_df) = 3
    /\ features_df[1].high = NaN
    /\ features_df[2].high = Price(2)
    /\ features_df[3].high = Price(3)
    /\ features_df[1].pivot_high_left = 0
    /\ features_df[1].pivot_high_right = 0
    /\ features_df[3].pivot_high_left = 1
    /\ features_df[2].pivot_high_left = 0

----------------------------------------------------------------------------
(* the streaming feature log of a run whose table carries the pivot columns *)

\* high_strength and low_strength of add_pivot_features: the smaller of the
\* left and the right strength, the score of a pivot
high_strength(r) == Min(r.pivot_high_left, r.pivot_high_right)

low_strength(r) == Min(r.pivot_low_left, r.pivot_low_right)

PivotColumns ==
    <<"index", "high", "low", "pivot_high_left", "pivot_high_right",
      "pivot_low_left", "pivot_low_right", "pivot_high_max", "pivot_low_max">>

PivotCsvLine(r) ==
    [kind |-> "row",
     cells |-> <<r.index, r.high, r.low, r.pivot_high_left, r.pivot_high_right,
                 r.pivot_low_left, r.pivot_low_right, high_strength(r),
                 low_strength(r)>>]

\* mutant: the first row of the table is appended, df.head(Some(1))
append_pivot_row_to_csv_head(file, df) ==
    IF Len(df) = 0
    THEN File(file.lines)
    ELSE File((IF file.exists THEN file.lines
               ELSE <<HeaderLine(PivotColumns)>>)
              \o <<PivotCsvLine(df[1])>>)

\* append_features_row_to_csv on a table with the pivot columns: the last
\* row, df.tail(Some(1)), after the header when the file is new
append_pivot_row_to_csv(file, df) ==
    IF Len(df) = 0
    THEN File(file.lines)
    ELSE File((IF file.exists THEN file.lines
               ELSE <<HeaderLine(PivotColumns)>>)
              \o <<PivotCsvLine(df[Len(df)])>>)

\* the table of a window of candles, of which the highs and lows are kept
PivotFrame(window) ==
    [i \in 1..Len(window) |->
        [index |-> i, high |-> window[i].high, low |-> window[i].low]]

PivotCandles == {[high |-> h, low |-> l] : h \in PivotPrices, l \in PivotPrices}

PivotLogInit ==
    /\ pc = "pivotlog"
    /\ result = "running"
    /\ stream_type = "m5"
    /\ raw_window = <<>>
    /\ features_df = <<>>
    /\ ncompute = 0
    /\ handles = <<>>
    /\ msg = NoMessage
    /\ sent = ""
    /\ fs = [p \in Paths |-> Absent]
    /\ unwritable = {}
    /\ sort_ties = "keep"
    /\ ema_spans = SourceSpans
    /\ fetch = NoFetch
    /\ feature_window = <<>>

\* one closed candle: the push with its eviction, the recomputation of the
\* pivot columns on the window, the append to the streaming feature log
PivotCandle ==
    /\ pc = "pivotlog"
    /\ ncompute < MaxRows
    /\ \E k \in PivotCandles :
        LET window == push_evict(raw_window, k)
            df == add_pivot_features(PivotFrame(window))
            path == streaming_csv_file(stream_type)
        IN  /\ raw_window' = window
            /\ features_df' = df
            /\ fs' = [fs EXCEPT ![path] = append_pivot_row_to_csv(fs[path], df)]
    /\ ncompute' = ncompute + 1
    /\ UNCHANGED <<pc, result, stream_type, handles, msg, sent, unwritable,
                   sort_ties, ema_spans, fetch, feature_window>>

PivotLogNext == PivotCandle

PivotLogSpec == PivotLogInit /\ [][PivotLogNext]_vars

RawLog == fs[csv_file(stream_type)]

\* the append task of the closed candle being persisted has just succeeded
RawAppendDone ==
    \E i \in 1..Len(handles) :
        /\ handles[i].op = "append_kline_to_csv"
        /\ handles[i].status = "pending"
        /\ handles'[i].status = "ok"

\* one step of the run seen from the raw candle log
RawLogStep ==
    pc \in {"streaming", "joining"} =>
        LET p == csv_file(stream_type)
        IN  /\ RawAppendDone =>
                /\ pc = "joining"
                /\ raw_window # <<>>
                /\ fs'[p].lines
                       = fs[p].lines
                           \o <<KlineCsvLine(raw_window[Len(raw_window)])>>
            /\ ~RawAppendDone => fs'[p] = fs[p]

ComputeFailureStep ==
    (pc = "streaming" /\ result' = "compute_error") =>
        /\ pc' = "terminated"
        /\ handles' = <<>>
        /\ fs' = fs
        /\ features_df' = features_df
        /\ raw_window' # <<>>
        /\ raw_window' = push_evict(raw_window, raw_window'[Len(raw_window')])
        /\ raw_window'[Len(raw_window')] \in StreamedKlines(stream_type)

\* C39: when the recomputation for a closed candle fails, the run ends with
\* that error, no write task of the event is spawned and no file changes,
\* and the raw window holds the candle, pushed with its eviction.
C39_FailedRecompute == [][ComputeFailureStep]_vars

\* the run has ended on a failed recomputation with a newest candle in the
\* window that neither the raw snapshot nor the raw log holds
C39_Witness ==
    /\ pc = "terminated"
    /\ result = "compute_error"
    /\ ncompute >= 2
    /\ Len(raw_window) = HISTORICAL_COUNT
    /\ handles = <<>>
    /\ LET newest == raw_window[Len(raw_window)]
           snapshot == fs[cache_file(stream_type)]
       IN  /\ snapshot.exists
           /\ \A i \in 1..Len(snapshot.lines) :
                  snapshot.lines[i].open_time # newest.open_time
           /\ RawLog.exists
           /\ \A i \in 1..Len(RawLog.lines) :
                  RawLog.lines[i] # KlineCsvLine(newest)

----------------------------------------------------------------------------
(* fetch_klines_range as a loop that is always resumed: every await of an   *)
(* iteration returns (the request with a response or an error, the sleep    *)
(* after 200 ms), so an iteration that can run does run                     *)

FetchLiveSpec == FetchInit /\ [][FetchNext]_vars /\ WF_vars(FetchPage)

\* one request of the loop, seen from outside: the page it got, and whether
\* the loop goes on
FetchStep ==
    (pc = "fetching" /\ pc' # "terminated") =>
        LET page == fetch'.pages[Len(fetch'.pages)]
            stops == \/ page = <<>>
                     \/ Len(page) < limit
                     \/ page[Len(page)].close_time + 1 >= fetch.end_time
        IN  /\ Len(fetch'.pages) = Len(fetch.pages) + 1
            /\ page = Page(fetch.store, fetch.current_start, fetch.end_time)
            /\ pc' = IF stops THEN "fetched" ELSE "fetching"
            /\ pc' = "fetching" =>
                   /\ fetch'.current_start = page[Len(page)].close_time + 1
                   /\ fetch'.current_start > fetch.current_start

\* C40: the loop stops at the first empty page, at the first page shorter
\* than limit, or when last.close_time + 1 reaches end_time; while it goes
\* on, current_start strictly increases; and it does stop: every fetch ends
\* after finitely many requests.
C40_Terminates ==
    /\ [][FetchStep]_vars
    /\ <>(pc # "fetching")

\* a fetch that ended on its third request by reaching end_time with a full
\* page, the start having moved forward twice
C40_Witness ==
    /\ pc = "fetched"
    /\ Len(fetch.pages) = 3
    /\ Len(fetch.pages[3]) = limit
    /\ fetch.current_start >= fetch.end_time
    /\ fetch.current_start > fetch.pages[2][limit].close_time + 1

====
